---- MODULE Spec2Model ----
(***************************************************************************)
(* WebDeck: the name normalizer, the plugin loader and its registry        *)
(* PLUGIN_ACTIONS, the HTTP request handlers of WebDeckHandler and the     *)
(* serving loop (webDeck.py), and the launcher (launchServer.py), as a     *)
(* state machine.                                                          *)
(*                                                                         *)
(* Strings the code inspects character by character (identifiers) are      *)
(* sequences of one-character strings; all other texts are TLA+ strings.   *)
(***************************************************************************)
EXTENDS Integers, Sequences, FiniteSets, TLC

VARIABLES
    name,               \* _camel_to_snake: the argument
    s2,                 \* _camel_to_snake: the value returned for name
    s2again,            \* _camel_to_snake applied to that value
    npc,                \* normalizer run: "in" -> "once" -> "twice"
    plugins_dir,        \* the plugins directory: exists, entries in iterdir() order
    idx,                \* load_plugins: position of the for loop over iterdir()
    PLUGIN_ACTIONS,     \* the registry: action name -> bound method
    stdout,             \* what load_plugins has printed
    phase,              \* "import" -> "loading" -> "loaded" -> "serving" | "stopped"
    MEDIA_CONTROL_AVAILABLE,  \* whether pynput was imported
    cfg,                \* state of the file webdeckCfg.json
    request,            \* the request handled last
    sent,               \* what the handler wrote to the connection for it
    escaped,            \* the exception that left the handler, "" if none
    notifs,             \* the send_notification calls made while handling it
    invoked,            \* the action handlers called while handling it
    prevError,          \* whether the request before it ended in an error
    stages,             \* the stages of the request lifecycle it went through
    port,               \* the port argument run() was called with
    conn,               \* connections of clients: state and kind of handler
    backlog,            \* connections the listening socket has not handed out
    current,            \* the connection serve_forever is handling, 0 if none
    lpc,                \* launchServer.main: the step it is at
    steps,              \* launchServer.main: the steps it has performed
    env,                \* launchServer: operating system, .git, state of git
    files,              \* launchServer: the files under REPO_ROOT
    executed,           \* load_plugins: the modules exec_module was called on
    loads,              \* the number of calls of load_plugins so far
    nread,              \* whether the handler read from the connection
    gpc,                \* webDeck_GUI save_config: "idle" or "writing"
    runs,               \* the number of runs of the launcher so far
    zip                 \* github_zip_update: what its last call did

nvars == <<name, s2, s2again, npc>>

lvars == <<plugins_dir, idx, PLUGIN_ACTIONS, stdout, phase, executed, loads>>

rvars == <<request, sent, escaped, notifs, invoked, prevError, stages, nread>>

svars == <<MEDIA_CONTROL_AVAILABLE, cfg, port>>

cvars == <<conn, backlog, current>>

uvars == <<lpc, steps, env, files, runs, zip>>

gvars == <<gpc>>

xvars == <<cvars, uvars, gvars>>

vars == <<nvars, lvars, svars, rvars, xvars>>

----------------------------------------------------------------------------
(* Characters *)

UpperSeq == <<"A","B","C","D","E","F","G","H","I","J","K","L","M",
              "N","O","P","Q","R","S","T","U","V","W","X","Y","Z">>

LowerSeq == <<"a","b","c","d","e","f","g","h","i","j","k","l","m",
              "n","o","p","q","r","s","t","u","v","w","x","y","z">>

DigitSeq == <<"0","1","2","3","4","5","6","7","8","9">>

\* the regex class [A-Z]
Upper == {UpperSeq[i] : i \in 1..Len(UpperSeq)}

\* the regex class [a-z]
Lower == {LowerSeq[i] : i \in 1..Len(LowerSeq)}

\* the digits of the regex class [a-z0-9]
Digit == {DigitSeq[i] : i \in 1..Len(DigitSeq)}

\* str.lower() on one character
LowerChar(c) ==
    IF c \in Upper
    THEN LowerSeq[CHOOSE i \in 1..Len(UpperSeq) : UpperSeq[i] = c]
    ELSE c

----------------------------------------------------------------------------
(* _camel_to_snake *)

\* end of the greedy run [a-z]+ that starts at position i of s
RECURSIVE LowerRunEnd(_, _)
LowerRunEnd(s, i) ==
    IF i + 1 <= Len(s) /\ s[i + 1] \in Lower
    THEN LowerRunEnd(s, i + 1)
    ELSE i

\* re.sub('(.)([A-Z][a-z]+)', r"\1_\2", s), scanning from position i:
\* leftmost non-overlapping matches, each replaced by \1 "_" \2
RECURSIVE Sub1From(_, _)
Sub1From(s, i) ==
    IF i > Len(s) THEN <<>>
    ELSE IF i + 2 <= Len(s) /\ s[i + 1] \in Upper /\ s[i + 2] \in Lower
         THEN LET e == LowerRunEnd(s, i + 2)
              IN  <<s[i], "_">> \o SubSeq(s, i + 1, e) \o Sub1From(s, e + 1)
         ELSE <<s[i]>> \o Sub1From(s, i + 1)

\* re.sub('([a-z0-9])([A-Z])', r"\1_\2", s), scanning from position i
RECURSIVE Sub2From(_, _)
Sub2From(s, i) ==
    IF i > Len(s) THEN <<>>
    ELSE IF i + 1 <= Len(s) /\ s[i] \in (Lower \cup Digit) /\ s[i + 1] \in Upper
         THEN <<s[i], "_", s[i + 1]>> \o Sub2From(s, i + 2)
         ELSE <<s[i]>> \o Sub2From(s, i + 1)

\* s.replace('-', '_')
ReplaceHyphen(s) == [i \in 1..Len(s) |-> IF s[i] = "-" THEN "_" ELSE s[i]]

\* s.lower()
LowerStr(s) == [i \in 1..Len(s) |-> LowerChar(s[i])]

\* the same conversion without the final .lower()
CamelToSnakeNoLower(n) == ReplaceHyphen(Sub2From(Sub1From(n, 1), 1))

_camel_to_snake(n) == LowerStr(ReplaceHyphen(Sub2From(Sub1From(n, 1), 1)))

----------------------------------------------------------------------------
(* Running the normalizer on bounded identifiers *)

\* longest identifier given to the normalizer
MaxLen == 4

\* the characters the identifiers are drawn from: letters of both cases,
\* a digit, the underscore and the hyphen
IdChars == {"a", "b", "B", "C", "1", "_", "-"}

RECURSIVE SeqsUpTo(_, _)
SeqsUpTo(S, n) ==
    IF n = 0 THEN {<<>>}
    ELSE LET shorter == SeqsUpTo(S, n - 1)
         IN  shorter \cup {Append(q, c) : q \in {r \in shorter : Len(r) = n - 1}, c \in S}

Identifiers == SeqsUpTo(IdChars, MaxLen) \ {<<>>}

NormInit ==
    /\ name \in Identifiers
    /\ s2 = <<>>
    /\ s2again = <<>>
    /\ npc = "in"

Normalize ==
    /\ npc = "in"
    /\ s2' = _camel_to_snake(name)
    /\ npc' = "once"
    /\ UNCHANGED <<name, s2again>>

NormalizeAgain ==
    /\ npc = "once"
    /\ s2again' = _camel_to_snake(s2)
    /\ npc' = "twice"
    /\ UNCHANGED <<name, s2>>

NormNext == Normalize \/ NormalizeAgain

----------------------------------------------------------------------------
(* Identifiers used by the loader and the dispatcher *)

Str_example == <<"e","x","a","m","p","l","e">>

Str_open_app == <<"o","p","e","n","_","a","p","p">>

Str_toggle_mute == <<"t","o","g","g","l","e","_","m","u","t","e">>

Str_pause_media == <<"p","a","u","s","e","_","m","e","d","i","a">>

Str_skip_track == <<"s","k","i","p","_","t","r","a","c","k">>

Str_previous_track == <<"p","r","e","v","i","o","u","s","_","t","r","a","c","k">>

Str_open_url == <<"o","p","e","n","_","u","r","l">>

Str_lock_screen == <<"l","o","c","k","_","s","c","r","e","e","n">>

Str_metadata == <<"m","e","t","a","d","a","t","a">>

\* method names of the plugin classes in the modelled directories
Str_MuteForegroundApp ==
    <<"M","u","t","e","F","o","r","e","g","r","o","u","n","d","A","p","p">>

Str_OpenUrl == <<"O","p","e","n","U","r","l">>

Str_doIt == <<"d","o","I","t">>

Str_DoIt == <<"D","o","I","t">>

Str_do_it == <<"d","o","_","i","t">>

Str__helper == <<"_","h","e","l","p","e","r">>

\* the module-level functions of plugins/toggleMute.py
Str_main == <<"m","a","i","n">>

Str_throw_error == <<"t","h","r","o","w","_","e","r","r","o","r">>

Str_get_foreground_process_name ==
    <<"g","e","t","_","f","o","r","e","g","r","o","u","n","d","_",
      "p","r","o","c","e","s","s","_","n","a","m","e">>

----------------------------------------------------------------------------
(* load_plugins *)

\* characters in code point order, the order Python compares strings by
AsciiSeq == <<"-">> \o DigitSeq \o UpperSeq \o <<"_">> \o LowerSeq

CodePoint(c) == CHOOSE i \in 1..Len(AsciiSeq) : AsciiSeq[i] = c

\* a < b for Python strings
RECURSIVE StrLess(_, _)
StrLess(a, b) ==
    IF Len(b) = 0 THEN FALSE
    ELSE IF Len(a) = 0 THEN TRUE
    ELSE IF a[1] /= b[1] THEN CodePoint(a[1]) < CodePoint(b[1])
    ELSE StrLess(Tail(a), Tail(b))

\* inspect.getmembers(plugin_instance, inspect.ismethod): the bound methods
\* of the instance as a list sorted by name
RECURSIVE getmembers(_)
getmembers(methods) ==
    IF methods = {} THEN <<>>
    ELSE LET m == CHOOSE x \in methods :
                     \A y \in methods \ {x} : StrLess(x.attr, y.attr)
         IN  <<m>> \o getmembers(methods \ {m})

\* attr_name.startswith('_') and p.name.startswith('_')
startswith_underscore(s) == Len(s) > 0 /\ s[1] = "_"

\* plain assignment PLUGIN_ACTIONS[action_name] = attr
DictAssign(pa, action_name, attr) ==
    [k \in DOMAIN pa \cup {action_name} |->
        IF k = action_name THEN attr ELSE pa[k]]

\* PLUGIN_ACTIONS.setdefault(action_name, attr)
setdefault(pa, action_name, attr) ==
    IF action_name \in DOMAIN pa
    THEN pa
    ELSE [k \in DOMAIN pa \cup {action_name} |->
             IF k = action_name THEN attr ELSE pa[k]]

\* one line of output of load_plugins
LogLine(tag, file, action_name, attr_name) ==
    [tag |-> tag, file |-> file, action |-> action_name, attr |-> attr_name]

\* a loop that registers a method called metadata like any other
IsPublicOrMetadata(attr) == ~startswith_underscore(attr)

\* lines 93-95: the members the loop does not skip
IsPublic(attr) == ~startswith_underscore(attr) /\ attr /= Str_metadata

\* the loop over the members of one plugin instance (lines 92-98); st is
\* the triple <<PLUGIN_ACTIONS, stdout, n>> in the n-th call of load_plugins,
\* whose instances (line 91) are told apart by n
RECURSIVE RegisterMembers(_, _, _)
RegisterMembers(st, file, members) ==
    IF members = <<>> THEN st
    ELSE LET m == Head(members)
         IN  IF ~IsPublic(m.attr)
             THEN RegisterMembers(st, file, Tail(members))
             ELSE LET action_name == _camel_to_snake(m.attr)
                      bound == [file |-> file, attr |-> m.attr, params |-> m.params,
                                instance |-> st[3]]
                  IN  RegisterMembers(
                          <<setdefault(st[1], action_name, bound),
                            Append(st[2], LogLine("Registered", file, action_name, m.attr)),
                            st[3]>>,
                          file, Tail(members))

\* the rules the docstring of load_plugins states (lines 63-66) applied to
\* the module-level functions fs of a loaded module: main under the
\* normalized file name, every public function under its normalized name
RECURSIVE RegisterFunctions(_, _, _)
RegisterFunctions(st, file, fs) ==
    IF fs = {} THEN st
    ELSE LET f == CHOOSE x \in fs : \A y \in fs \ {x} : StrLess(x, y)
             bound == [file |-> file, attr |-> f, params |-> 0, instance |-> st[3]]
             asMain == IF f = Str_main
                       THEN setdefault(st[1], _camel_to_snake(file), bound)
                       ELSE st[1]
             asFunction == IF startswith_underscore(f)
                           THEN asMain
                           ELSE setdefault(asMain, _camel_to_snake(f), bound)
         IN  RegisterFunctions(<<asFunction, st[2], st[3]>>, file, fs \ {f})

\* a loop that executes the files whose name begins with '_' too
ExecutesPrivate(p) == p.suffix = ".py"

\* lines 80-81: the entries of the directory the loop does not skip
Executes(p) == p.suffix = ".py" /\ ~startswith_underscore(p.stem)

\* the for loop body that also registers the module-level functions of a
\* module without a WebDeckPlugin class
LoadEntryWithFunctions(st, p) ==
    IF ~Executes(p)
    THEN st
    ELSE IF p.load = "raises"
    THEN <<st[1], Append(st[2], LogLine("Failed to load plugin", p.stem, <<>>, <<>>)), st[3]>>
    ELSE IF ~p.hasClass
    THEN RegisterFunctions(st, p.stem, p.functions)
    ELSE IF p.init = "raises"
    THEN <<st[1], Append(st[2], LogLine("Failed to instantiate", p.stem, <<>>, <<>>)), st[3]>>
    ELSE RegisterMembers(st, p.stem, getmembers(p.methods))

\* the body of the for loop of load_plugins for one directory entry p
LoadEntry(st, p) ==
    IF ~Executes(p)
    THEN st
    ELSE IF p.load = "raises"
    THEN <<st[1], Append(st[2], LogLine("Failed to load plugin", p.stem, <<>>, <<>>)), st[3]>>
    ELSE IF ~p.hasClass
    THEN <<st[1], Append(st[2], LogLine("Skipping", p.stem, <<>>, <<>>)), st[3]>>
    ELSE IF p.init = "raises"
    THEN <<st[1], Append(st[2], LogLine("Failed to instantiate", p.stem, <<>>, <<>>)), st[3]>>
    ELSE RegisterMembers(st, p.stem, getmembers(p.methods))

\* a method of a plugin class: its name and the number of parameters its
\* bound signature declares
Method(attr, params) == [attr |-> attr, params |-> params]

\* a directory entry: the file name, what executing the module does,
\* whether it defines WebDeckPlugin, what WebDeckPlugin() does, the methods
\* of the instance and the functions the module defines
Entry(stem, suffix, load, hasClass, init, methods, functions) ==
    [stem |-> stem, suffix |-> suffix, load |-> load, hasClass |-> hasClass,
     init |-> init, methods |-> methods, functions |-> functions]

\* plugins/toggleMute.py
toggleMute ==
    Entry(<<"t","o","g","g","l","e","M","u","t","e">>, ".py", "ok", TRUE, "ok",
          {Method(Str_MuteForegroundApp, 0)},
          {Str_throw_error, Str_get_foreground_process_name, Str_main})

\* a plugin with a method that normalizes to a built-in name, a private
\* method and a method named metadata
deck ==
    Entry(<<"d","e","c","k">>, ".py", "ok", TRUE, "ok",
          {Method(Str_doIt, 1), Method(Str_OpenUrl, 0),
           Method(Str__helper, 0), Method(Str_metadata, 0)}, {})

\* a plugin with two methods that normalize to the same name
demo ==
    Entry(<<"d","e","m","o">>, ".py", "ok", TRUE, "ok",
          {Method(Str_DoIt, 0), Method(Str_do_it, 2)}, {Str_main})

\* a module whose execution raises
badModule == Entry(<<"b","a","d">>, ".py", "raises", FALSE, "ok", {}, {})

\* a subdirectory of the plugins directory, with a plugin file in it
subdir == Entry(<<"s","u","b">>, "", "raises", FALSE, "ok", {}, {})

\* the stems of the .py files inside the directory entry p
Inside(p) == IF p = subdir THEN {<<"i","n","n","e","r">>} ELSE {}

\* the entries the modelled directories are made of
Entries ==
    { toggleMute, deck, demo, badModule,
      Entry(<<"l","i","b">>, ".py", "ok", FALSE, "ok", {}, {Str_main, Str_doIt}),
      Entry(<<"c","t","o","r">>, ".py", "ok", TRUE, "raises",
            {Method(Str_doIt, 0)}, {}),
      Entry(<<"_","o","f","f">>, ".py", "ok", TRUE, "ok",
            {Method(Str_DoIt, 0)}, {}),
      Entry(<<"n","o","t","e","s">>, ".txt", "raises", FALSE, "ok", {}, {}),
      subdir }

\* most entries in a modelled plugins directory
MaxUnits == 2

\* the listings iterdir() can produce: distinct entries in any order
Listings ==
    {q \in SeqsUpTo(Entries, MaxUnits) :
        \A i, j \in 1..Len(q) : i /= j => q[i].stem /= q[j].stem}

\* the plugins directories of the served installations: the shipped
\* plugin next to a module that fails to load and one that collides with a
\* built-in, and two modules that collide with each other
ServedListings ==
    { <<toggleMute, badModule, deck>>, <<demo, deck>> }

EmptyDict == [k \in {} |-> 0]

LoaderInit ==
    /\ plugins_dir \in [exists : BOOLEAN, entries : Listings \cup ServedListings]
    /\ ~plugins_dir.exists => plugins_dir.entries = <<>>
    /\ idx = 1
    /\ PLUGIN_ACTIONS = EmptyDict
    /\ stdout = <<>>
    /\ executed = <<>>
    /\ loads = 0
    /\ phase = "import"

\* a load_plugins that starts from an empty dictionary
RegistryReset(pa) == EmptyDict

\* lines 50 and 70: PLUGIN_ACTIONS is created once, at import; load_plugins
\* declares it global and works on the dictionary it finds
RegistryAtCall(pa) == pa

\* lines 71-77: the directory check of load_plugins
LoadPluginsEnter ==
    /\ phase = "import"
    /\ IF plugins_dir.exists
       THEN /\ phase' = "loading"
            /\ UNCHANGED stdout
       ELSE /\ phase' = "loaded"
            /\ stdout' = Append(stdout, LogLine("No plugins directory", <<>>, <<>>, <<>>))
    /\ loads' = loads + 1
    /\ PLUGIN_ACTIONS' = RegistryAtCall(PLUGIN_ACTIONS)
    /\ UNCHANGED <<plugins_dir, idx, executed>>

\* whether loading entry p ends in one of the except clauses
FailsToLoad(p) ==
    /\ p.suffix = ".py"
    /\ ~startswith_underscore(p.stem)
    /\ p.load = "raises" \/ (p.hasClass /\ p.init = "raises")

\* a loop that an exception of an entry ends: the position after entry i
\* of n
NextEntryOrAbort(i, p, n) == IF FailsToLoad(p) THEN n + 1 ELSE i + 1

\* lines 79 and 99-106: both except clauses are inside the for loop, so
\* the loop goes on with the next entry after entry i of n, whatever p did
NextEntry(i, p, n) == i + 1

\* lines 79-106: one iteration of the for loop
LoadPluginsStep ==
    /\ phase = "loading"
    /\ idx <= Len(plugins_dir.entries)
    /\ LET st == LoadEntry(<<PLUGIN_ACTIONS, stdout, loads>>, plugins_dir.entries[idx])
       IN  /\ PLUGIN_ACTIONS' = st[1]
           /\ stdout' = st[2]
    /\ executed' = IF Executes(plugins_dir.entries[idx])
                    THEN Append(executed, plugins_dir.entries[idx].stem)
                    ELSE executed
    /\ idx' = NextEntry(idx, plugins_dir.entries[idx], Len(plugins_dir.entries))
    /\ UNCHANGED <<plugins_dir, phase, loads>>

\* lines 108-112: the summary
LoadPluginsSummary ==
    /\ phase = "loading"
    /\ idx > Len(plugins_dir.entries)
    /\ stdout' = Append(stdout,
                    LogLine(IF DOMAIN PLUGIN_ACTIONS /= {} THEN "Loaded" ELSE "No plugin actions",
                            <<>>, <<>>, <<>>))
    /\ phase' = "loaded"
    /\ UNCHANGED <<plugins_dir, idx, PLUGIN_ACTIONS, executed, loads>>

\* a further call of load_plugins() in the same process
MaxLoads == 2

LoadPluginsAgain ==
    /\ phase = "loaded"
    /\ loads < MaxLoads
    /\ phase' = "import"
    /\ idx' = 1
    /\ UNCHANGED <<plugins_dir, PLUGIN_ACTIONS, stdout, executed, loads>>

----------------------------------------------------------------------------
(* JSON values and action results *)

\* a decoded JSON value, or the None that dict.get returns for a missing key
JsonMissing == [t |-> "missing", s |-> <<>>]

JsonStr(s) == [t |-> "str", s |-> s]

JsonNum == [t |-> "num", s |-> <<>>]

JsonList == [t |-> "list", s |-> <<>>]

\* Python's v == "literal" for a decoded value v
EqStr(v, literal) == v.t = "str" /\ v.s = literal

\* a text built by an f-string: the template, the identifier or value
\* substituted into it, and the exception text substituted into it
Msg(fmt, arg, exc) == [fmt |-> fmt, arg |-> arg, exc |-> exc]

NoMsg == Msg("", <<>>, "")

\* a value a handler returns or the dispatcher builds: t is "dict", "none"
\* or "other"; for a dict, whether it has the keys status and message,
\* their values, and whether json.dumps accepts the dict
Value(t, hasStatus, status, hasMessage, message, dumps) ==
    [t |-> t, hasStatus |-> hasStatus, status |-> status,
     hasMessage |-> hasMessage, message |-> message, dumps |-> dumps]

\* {"status": status, "message": message}
Result(status, message) == Value("dict", TRUE, status, TRUE, message, TRUE)

None == Value("none", FALSE, "", FALSE, NoMsg, TRUE)

\* what the modelled plugin methods return
ReturnValues ==
    { None,
      Value("other", FALSE, "", FALSE, NoMsg, TRUE),
      Value("dict", FALSE, "", TRUE, Msg("plugin text", <<>>, ""), TRUE),
      Result("success", Msg("plugin text", <<>>, "")),
      Result("error", Msg("plugin text", <<>>, "")),
      Value("dict", TRUE, "done", FALSE, NoMsg, TRUE),
      Value("dict", TRUE, "success", TRUE, Msg("plugin text", <<>>, ""), FALSE) }

----------------------------------------------------------------------------
(* get_button_configuration *)

\* states of webdeckCfg.json: "valid" (an object with a buttons key),
\* "default" (the file written at lines 153-166), "nobuttons" (an object
\* without the key), "invalid" (not JSON), "missing"
CfgStates == {"valid", "default", "nobuttons", "invalid", "missing"}

\* a default file that lacks the buttons key
DefaultWithoutButtons(writeOk) == IF writeOk THEN "nobuttons" ELSE "missing"

\* lines 152-169: the file after the FileNotFoundError branch: the default
\* configuration with its 18 buttons when open(config_path, 'w') and
\* json.dump succeed
DefaultWritten(writeOk) == IF writeOk THEN "default" ELSE "missing"

\* returns the exception raised ("" if none), the buttons returned and the
\* state of the file afterwards; writeOk: whether open(config_path, 'w')
\* and json.dump succeed. "partial" is the file while another process
\* writes it: opened for writing (empty) or written in part, not JSON
get_button_configuration(c, writeOk) ==
    CASE c \in {"valid", "default"} ->
            [raised |-> "", buttons |-> c, cfg |-> c]
      [] c = "nobuttons" ->
            [raised |-> "KeyError", buttons |-> "", cfg |-> c]
      [] c = "missing" ->
            [raised |-> "FileNotFoundError", buttons |-> "",
             cfg |-> DefaultWritten(writeOk)]
      [] c \in {"invalid", "partial"} ->
            [raised |-> "JSONDecodeError", buttons |-> "", cfg |-> c]

----------------------------------------------------------------------------
(* send_notification and handle_media_control *)

\* a call of send_notification: its important flag and whether the sink
\* accepted it (show_toast returned) or raised
Notification(important, ok) == [important |-> important, ok |-> ok]

\* what a call into the operating system does: it returns, or it raises
\* AttributeError (os.startfile off Windows, a Key member pynput lacks), or
\* it raises another exception
OsOutcomes == {"ok", "AttributeError", "OSError"}

\* key: what keyboard_controller.press/release do
handle_media_control(action, key) ==
    IF ~MEDIA_CONTROL_AVAILABLE
    THEN Result("error", Msg("Media control not available.", <<>>, ""))
    ELSE IF action \notin {Str_pause_media, Str_toggle_mute, Str_skip_track,
                           Str_previous_track}
    THEN Result("error", Msg("Unknown media action.", <<>>, ""))
    ELSE IF key = "AttributeError"
    THEN Result("error", Msg("Media key not supported on this system: {e}", <<>>, key))
    ELSE IF key /= "ok"
    THEN Result("error", Msg("Failed to execute media control: {e}", <<>>, key))
    ELSE IF action = Str_pause_media
    THEN Result("success", Msg("Toggled play/pause.", <<>>, ""))
    ELSE IF action = Str_toggle_mute
    THEN Result("success", Msg("Toggled mute.", <<>>, ""))
    ELSE IF action = Str_skip_track
    THEN Result("success", Msg("Skipped to next track.", <<>>, ""))
    ELSE Result("success", Msg("Skipped to previous track.", <<>>, ""))

\* lines 190-206: the key events handle_media_control sends: press and
\* release of the media key of the action, none when media control is
\* unavailable (line 187) or press raises
KeyEvents(action, key) ==
    IF MEDIA_CONTROL_AVAILABLE
       /\ action \in {Str_pause_media, Str_toggle_mute, Str_skip_track, Str_previous_track}
       /\ key = "ok"
    THEN <<"press", "release">>
    ELSE <<>>

----------------------------------------------------------------------------
(* WebDeckHandler.do_POST: the action endpoint *)

MediaActions == {Str_toggle_mute, Str_pause_media, Str_skip_track, Str_previous_track}

BuiltinActions ==
    {Str_example, Str_open_app, Str_open_url, Str_lock_screen} \cup MediaActions

\* resolution with the registry consulted before the built-in chain
ResolvePluginFirst(pa, action) ==
    IF action.t \in {"list", "dict"}
    THEN [kind |-> "TypeError", id |-> <<>>]
    ELSE IF action.t = "str" /\ action.s \in DOMAIN pa
    THEN [kind |-> "plugin", id |-> action.s]
    ELSE IF action.t = "str" /\ action.s \in BuiltinActions
    THEN [kind |-> "builtin", id |-> action.s]
    ELSE [kind |-> "unknown", id |-> <<>>]

\* lines 293-340: the if/elif chain over the built-in names, then
\* PLUGIN_ACTIONS.get(action), which raises TypeError for an unhashable key
Resolve(pa, action) ==
    IF \E b \in BuiltinActions : EqStr(action, b)
    THEN [kind |-> "builtin", id |-> action.s]
    ELSE IF action.t \in {"list", "dict"}
    THEN [kind |-> "TypeError", id |-> <<>>]
    ELSE IF action.t = "str" /\ action.s \in DOMAIN pa
    THEN [kind |-> "plugin", id |-> action.s]
    ELSE [kind |-> "unknown", id |-> <<>>]

\* a call of an action handler: a built-in branch or a registered method,
\* the number of arguments it was called with, whether the call raised and
\* the value it returned
BuiltinCall(id, raised) ==
    [kind |-> "builtin", id |-> id, file |-> <<>>, attr |-> <<>>, nargs |-> 0,
     raised |-> raised, returned |-> None, keys |-> <<>>]

\* the call of handle_media_control and the key events it sent
MediaCall(id, keys) == [BuiltinCall(id, FALSE) EXCEPT !.keys = keys]

PluginCall(id, h, nargs, raised, returned) ==
    [kind |-> "plugin", id |-> id, file |-> h.file, attr |-> h.attr, nargs |-> nargs,
     raised |-> raised, returned |-> returned, keys |-> <<>>]

\* lines 349-352
NormalizeResult(result, action) ==
    IF result.t = "dict" /\ result.hasStatus
    THEN result
    ELSE Result("success", Msg("Plugin '{action}' executed.", action, ""))

\* the outcome of the try block of do_POST: the response it leaves (None
\* if it was left by an exception), the exception that escapes it, the
\* notifications and the handler calls made
Outcome(response, exc, ns, calls) ==
    [response |-> response, exc |-> exc, notifs |-> ns, invoked |-> calls]

\* the common shape of lines 299-307, 318-326 and 328-336: the operation,
\* then a notification inside the try block; a failure of either is caught
\* and answered by an error response and a second notification.
\* opOk: the operation returned; baseOk: the argument of the second
\* notification can be evaluated; n1, n2: the sink accepts the first, the
\* second call
TryNotify(call, opOk, baseOk, okMsg, errMsg, n1, n2) ==
    IF opOk
    THEN IF n1
         THEN Outcome(Result("success", okMsg), "", <<Notification(FALSE, TRUE)>>, <<call>>)
         ELSE IF n2
              THEN Outcome(Result("error", [errMsg EXCEPT !.exc = "sink"]), "",
                           <<Notification(FALSE, FALSE), Notification(TRUE, TRUE)>>, <<call>>)
              ELSE Outcome(None, "SinkError",
                           <<Notification(FALSE, FALSE), Notification(TRUE, FALSE)>>, <<call>>)
    ELSE IF ~baseOk
         THEN Outcome(None, "TypeError", <<>>, <<call>>)
         ELSE IF n1
              THEN Outcome(Result("error", errMsg), "", <<Notification(TRUE, TRUE)>>, <<call>>)
              ELSE Outcome(None, "SinkError", <<Notification(TRUE, FALSE)>>, <<call>>)

\* lines 293-336: the built-in branches. os: what the OS call of the branch
\* (messagebox.showinfo, os.startfile, the key events, os.system) does
Builtin(id, data, os, n1, n2) ==
    LET osOk == os = "ok" IN
    CASE id = Str_example ->
            IF osOk
            THEN Outcome(Result("success", Msg("Opened example message box.", <<>>, "")),
                         "", <<>>, <<BuiltinCall(id, FALSE)>>)
            ELSE Outcome(None, "TclError", <<>>, <<BuiltinCall(id, TRUE)>>)
      [] id = Str_open_app ->
            TryNotify(BuiltinCall(id, ~(osOk /\ data.path.t = "str")),
                      osOk /\ data.path.t = "str", data.path.t = "str",
                      Msg("Opened application: {path_to_app}", data.path.s, ""),
                      Msg("Failed to open application: {e}", <<>>, "os"), n1, n2)
      [] id \in MediaActions ->
            LET response == handle_media_control(id, os)
                call == MediaCall(id, KeyEvents(id, os))
            IN  IF n1
                THEN Outcome(response, "",
                             <<Notification(response.status /= "success", TRUE)>>,
                             <<call>>)
                ELSE Outcome(None, "SinkError",
                             <<Notification(response.status /= "success", FALSE)>>,
                             <<call>>)
      [] id = Str_open_url ->
            TryNotify(BuiltinCall(id, ~(osOk /\ data.path.t = "str")),
                      osOk /\ data.path.t = "str", TRUE,
                      Msg("Opened URL: {url}", data.path.s, ""),
                      Msg("Failed to open URL: {e}", <<>>, "os"), n1, n2)
      [] id = Str_lock_screen ->
            TryNotify(BuiltinCall(id, ~osOk), osOk, TRUE,
                      Msg("Screen locked.", <<>>, ""),
                      Msg("Failed to lock screen: {e}", <<>>, "os"), n1, n2)

\* a dispatcher that hands the payload to every handler
AlwaysPassPayload(params) == 1

\* lines 342-347: the number of arguments of the call, from the number of
\* parameters inspect.signature reports for the bound method: none for a
\* method that takes none, else the decoded payload
CallShape(params) == IF params = 0 THEN 0 ELSE 1

\* lines 341-363: the plugin branch. ret: what the method does when called,
\* [raises |-> BOOLEAN, value |-> a return value]
Plugin(action, h, ret, n1, n2) ==
    LET nargs == CallShape(h.params)
        \* a call with too few or too many arguments raises TypeError
        raised == h.params > 1 \/ nargs > h.params \/ ret.raises
        call == PluginCall(action, h, nargs, raised, IF raised THEN None ELSE ret.value)
        error == Result("error", Msg("Plugin error: {e}", <<>>, "plugin"))
    IN  IF raised
        THEN IF n1
             THEN Outcome(error, "", <<Notification(TRUE, TRUE)>>, <<call>>)
             ELSE Outcome(None, "SinkError", <<Notification(TRUE, FALSE)>>, <<call>>)
        ELSE LET response == NormalizeResult(ret.value, action)
                 important == response.status /= "success"
             IN  IF n1
                 THEN Outcome(response, "", <<Notification(important, TRUE)>>, <<call>>)
                 ELSE IF n2
                      THEN Outcome([error EXCEPT !.message.exc = "sink"], "",
                                   <<Notification(important, FALSE), Notification(TRUE, TRUE)>>,
                                   <<call>>)
                      ELSE Outcome(None, "SinkError",
                                   <<Notification(important, FALSE), Notification(TRUE, FALSE)>>,
                                   <<call>>)

\* lines 288-369: reading and decoding the body, resolving and executing
\* the action. clen: the Content-Length header ("absent", "0", "n" for the
\* length of the body, "bad" for a value int() rejects)
Dispatch(pa, clen, body, os, ret, n1, n2) ==
    IF clen = "bad"
    THEN Outcome(None, "ValueError", <<>>, <<>>)
    ELSE LET post_data == IF clen = "n" THEN body
                          ELSE [kind |-> "object", action |-> JsonMissing, path |-> JsonMissing]
         IN  CASE post_data.kind = "badutf" ->
                     Outcome(None, "UnicodeDecodeError", <<>>, <<>>)
               [] post_data.kind = "notjson" ->
                     IF n1
                     THEN Outcome(Result("error", Msg("Invalid JSON.", <<>>, "")), "",
                                  <<Notification(TRUE, TRUE)>>, <<>>)
                     ELSE Outcome(None, "SinkError", <<Notification(TRUE, FALSE)>>, <<>>)
               [] post_data.kind = "nonobject" ->
                     Outcome(None, "AttributeError", <<>>, <<>>)
               [] post_data.kind = "object" ->
                     LET r == Resolve(pa, post_data.action)
                     IN  CASE r.kind = "builtin" -> Builtin(r.id, post_data, os, n1, n2)
                           [] r.kind = "plugin" -> Plugin(r.id, pa[r.id], ret, n1, n2)
                           [] r.kind = "TypeError" -> Outcome(None, "TypeError", <<>>, <<>>)
                           [] r.kind = "unknown" ->
                                 IF n1
                                 THEN Outcome(Result("error", Msg("Unknown action.", <<>>, "")),
                                              "", <<Notification(TRUE, TRUE)>>, <<>>)
                                 ELSE Outcome(None, "SinkError",
                                              <<Notification(TRUE, FALSE)>>, <<>>)

\* the stages of the request lifecycle do_POST went through: line 291
\* (Parsed: json.loads returned), lines 292-340 (Resolved: the action was
\* extracted and looked up), the handler call (Executed), lines 371-376
\* (Responded: the response was written); o: the outcome of the try block
Stages(pa, clen, body, o) ==
    LET post_data == IF clen = "n" THEN body
                     ELSE [kind |-> "object", action |-> JsonMissing, path |-> JsonMissing]
        parsed == clen /= "bad" /\ post_data.kind \in {"object", "nonobject"}
        resolved == parsed /\ post_data.kind = "object"
                       /\ Resolve(pa, post_data.action).kind /= "TypeError"
    IN  <<"Received">>
          \o (IF parsed THEN <<"Parsed">> ELSE <<>>)
          \o (IF resolved THEN <<"Resolved">> ELSE <<>>)
          \o (IF o.invoked /= <<>> THEN <<"Executed">> ELSE <<>>)
          \o (IF o.exc = "" THEN <<"Responded">> ELSE <<>>)

----------------------------------------------------------------------------
(* What a handler writes *)

\* n: the number of send_response calls; code: the status code; cors:
\* whether Access-Control-Allow-Origin: * was sent; kind: what the body
\* is ("none" when no body was written); body: the action result written
Sent(n, code, cors, kind, body) ==
    [n |-> n, code |-> code, cors |-> cors, kind |-> kind, body |-> body]

Nothing == Sent(0, 0, FALSE, "none", None)

\* lines 371-376: status code, headers, json.dumps(response)
WriteResponse(response) ==
    LET status_code == IF response.status = "success" THEN 200 ELSE 400
    IN  IF response.dumps
        THEN Sent(1, status_code, TRUE, "result", response)
        ELSE Sent(1, status_code, TRUE, "none", None)

----------------------------------------------------------------------------
(* The requests *)

Body(kind, action, path) == [kind |-> kind, action |-> action, path |-> path]

NoBody == Body("none", JsonMissing, JsonMissing)

Request(method, path, clen, body) ==
    [method |-> method, path |-> path, clen |-> clen, body |-> body]

NoRequest == Request("", "", "absent", NoBody)

Str_nope == <<"n","o","p","e">>

\* the values of the action field in the modelled bodies
ActionValues ==
    {JsonMissing, JsonNum, JsonList}
        \cup {JsonStr(a) : a \in BuiltinActions}
        \cup {JsonStr(_camel_to_snake(Str_MuteForegroundApp)),
              JsonStr(Str_do_it), JsonStr(Str_nope)}

\* the values of the path field; the bodies carry one for the actions
\* that read it
PathValues(a) ==
    IF a \in {JsonStr(Str_open_app), JsonStr(Str_open_url)}
    THEN {JsonMissing, JsonStr(<<"x">>)}
    ELSE {JsonMissing}

\* bodies: bytes that are not UTF-8, text that is not JSON, a JSON value
\* that is not an object, and objects
Bodies ==
    {Body("badutf", JsonMissing, JsonMissing),
     Body("notjson", JsonMissing, JsonMissing),
     Body("nonobject", JsonMissing, JsonMissing)}
        \cup UNION {{Body("object", a, p) : p \in PathValues(a)} : a \in ActionValues}

ActionRequests ==
    {Request("POST", "/", "n", b) : b \in Bodies}
        \cup {Request("POST", "/", c, NoBody) : c \in {"absent", "0", "bad"}}

GetPaths == {"/discover", "/status", "/buttons", "/other"}

\* whether the request handled last ended in an error: an exception left
\* the handler or an error status was answered
EndedInError == escaped /= "" \/ (sent.n > 0 /\ sent.code >= 400)

\* socketserver catches every Exception a handler raises (handle_error)
\* and serve_forever goes on; the loop that instead ends with the handler
StopOnException(exc) == IF exc = "" THEN "serving" ELSE "stopped"

\* lines 390-391: httpd.serve_forever() after a request whose handler
\* raised exc ("" if it returned)
serve_forever(exc) == "serving"

----------------------------------------------------------------------------
(* The server *)

\* line 378: the default of the port parameter of run
DefaultPort == 8001

ServerInit ==
    /\ MEDIA_CONTROL_AVAILABLE \in BOOLEAN
    /\ port = DefaultPort
    /\ cfg \in CfgStates \ {"default"}
    /\ request = NoRequest
    /\ sent = Nothing
    /\ escaped = ""
    /\ notifs = <<>>
    /\ invoked = <<>>
    /\ prevError = FALSE
    /\ stages = <<>>
    /\ nread = 0
    /\ gpc = "idle"

\* lines 378-391: run() up to serve_forever; the "Server started!"
\* notification is sent before the loop is entered
Run ==
    /\ phase = "loaded"
    /\ \E n \in BOOLEAN :
          /\ notifs' = <<Notification(FALSE, n)>>
          /\ phase' = IF n THEN "serving" ELSE "stopped"
    /\ UNCHANGED <<plugins_dir, idx, PLUGIN_ACTIONS, stdout, executed, loads>>
    /\ UNCHANGED <<request, sent, escaped, invoked, prevError, stages, nread>>
    /\ UNCHANGED <<nvars, svars, xvars>>

\* lines 219-224
do_OPTIONS ==
    /\ phase = "serving"
    /\ \E path \in {"/", "/reload"} :
          request' = Request("OPTIONS", path, "absent", NoBody)
    /\ sent' = Sent(1, 200, TRUE, "none", None)
    /\ escaped' = ""
    /\ notifs' = <<>>
    /\ invoked' = <<>>
    /\ stages' = <<>>
    /\ nread' = 0
    /\ prevError' = EndedInError
    /\ phase' = serve_forever(escaped')
    /\ UNCHANGED <<plugins_dir, idx, PLUGIN_ACTIONS, stdout, executed, loads>>
    /\ UNCHANGED <<nvars, svars, xvars>>

\* socket.gethostname()
gethostname == "desktop"

\* lines 230-235: the body of /discover; p: the port run() was called with
DiscoverBody(hostname, p) ==
    [status |-> "online", message |-> "WebDeck server is online",
     hostname |-> hostname, port |-> 8001]

\* lines 246-250: the body of /status
StatusBody(hostname, p) ==
    [status |-> "online", hostname |-> hostname, port |-> 8001]

\* line 242: /discover calls send_notification once, important=False; n:
\* whether the sink accepts it
DiscoverNotifications(n) == <<Notification(FALSE, n)>>

\* a status endpoint that notifies as /discover does
StatusNotifies(n) == <<Notification(FALSE, n)>>

\* lines 243-255: /status calls send_notification never
StatusNotifications(n) == <<>>

\* lines 257-263: the body of the answer of /buttons: the array
\* get_button_configuration returned
ButtonsBody(buttons) == [t |-> "buttons", buttons |-> buttons]

\* lines 226-266
do_GET ==
    /\ phase = "serving"
    /\ \E path \in GetPaths, n \in BOOLEAN, writeOk \in BOOLEAN :
          /\ request' = Request("GET", path, "absent", NoBody)
          /\ CASE path = "/discover" ->
                    /\ sent' = Sent(1, 200, TRUE, "discover", DiscoverBody(gethostname, port))
                    /\ notifs' = DiscoverNotifications(n)
                    /\ escaped' = IF n THEN "" ELSE "SinkError"
                    /\ cfg' = cfg
               [] path = "/status" ->
                    /\ sent' = Sent(1, 200, TRUE, "status", StatusBody(gethostname, port))
                    /\ notifs' = StatusNotifications(n)
                    /\ escaped' = ""
                    /\ cfg' = cfg
               [] path = "/buttons" ->
                    LET b == get_button_configuration(cfg, writeOk)
                    IN  /\ sent' = IF b.raised = ""
                                   THEN Sent(1, 200, TRUE, "buttons", ButtonsBody(b.buttons))
                                   ELSE Nothing
                        /\ notifs' = <<>>
                        /\ escaped' = b.raised
                        /\ cfg' = b.cfg
               [] OTHER ->
                    /\ sent' = Sent(1, 404, FALSE, "none", None)
                    /\ notifs' = <<>>
                    /\ escaped' = ""
                    /\ cfg' = cfg
    /\ invoked' = <<>>
    /\ prevError' = EndedInError
    /\ phase' = serve_forever(escaped')
    /\ UNCHANGED <<plugins_dir, idx, PLUGIN_ACTIONS, stdout, executed, loads>>
    /\ stages' = <<>>
    /\ nread' = 0
    /\ UNCHANGED <<nvars, MEDIA_CONTROL_AVAILABLE, port, xvars>>

\* a reload that starts from an empty registry
ClearedRegistry(pa) == EmptyDict

\* lines 270-286: the reload endpoint calls get_button_configuration only;
\* the registry after it
RegistryAfterReload(pa) == pa

\* a reload endpoint that answers 200 whatever get_button_configuration did
ReloadCodeOk(raised) == 200

\* lines 272-286: 200 in the try block, 500 in the except clause
ReloadCode(raised) == IF raised = "" THEN 200 ELSE 500

\* lines 278 and 285: the body of the answer
ReloadBody(raised) ==
    IF raised = ""
    THEN Result("success", Msg("Reloaded button configuration.", <<>>, ""))
    ELSE Result("error", Msg("{e}", <<>>, raised))

\* lines 270-286: POST /reload
do_POST_reload ==
    /\ phase = "serving"
    /\ \E writeOk \in BOOLEAN :
          LET b == get_button_configuration(cfg, writeOk)
          IN  /\ sent' = Sent(1, ReloadCode(b.raised), TRUE, "result", ReloadBody(b.raised))
              /\ cfg' = b.cfg
    /\ request' = Request("POST", "/reload", "absent", NoBody)
    /\ escaped' = ""
    /\ notifs' = <<>>
    /\ invoked' = <<>>
    /\ prevError' = EndedInError
    /\ phase' = serve_forever(escaped')
    /\ PLUGIN_ACTIONS' = RegistryAfterReload(PLUGIN_ACTIONS)
    /\ UNCHANGED <<plugins_dir, idx, stdout, executed, loads>>
    /\ stages' = <<>>
    /\ nread' = 0
    /\ UNCHANGED <<nvars, MEDIA_CONTROL_AVAILABLE, port, xvars>>

\* what the OS call of a request can do: drawn for the requests that
\* reach a built-in branch
OsInputs(r) ==
    IF r.clen = "n" /\ r.body.kind = "object"
       /\ Resolve(EmptyDict, r.body.action).kind = "builtin"
    THEN OsOutcomes
    ELSE {"ok"}

\* what the plugin method of a request can do: drawn for the requests that
\* reach a registered method
PluginInputs(pa, r) ==
    IF r.clen = "n" /\ r.body.kind = "object"
       /\ Resolve(pa, r.body.action).kind = "plugin"
    THEN {[raises |-> TRUE, value |-> None]}
            \cup {[raises |-> FALSE, value |-> v] : v \in ReturnValues}
    ELSE {[raises |-> FALSE, value |-> None]}

\* whether the sink accepts the first and the second notification of a
\* request; the second is sent only after the first failed
SinkInputs == {<<TRUE, TRUE>>, <<FALSE, TRUE>>, <<FALSE, FALSE>>}

\* lines 288-289: the number of reads from the connection: rfile.read is
\* called when int() accepted the Content-Length and it is positive
rfile_read(clen) == IF clen = "n" THEN 1 ELSE 0

\* lines 288-376: POST to any other path
do_POST ==
    /\ phase = "serving"
    /\ \E r \in ActionRequests :
       \E os \in OsInputs(r), ret \in PluginInputs(PLUGIN_ACTIONS, r),
          n \in SinkInputs :
          LET n1 == n[1]
              n2 == n[2]
          IN
          LET o == Dispatch(PLUGIN_ACTIONS, r.clen, r.body, os, ret, n1, n2)
          IN  /\ request' = r
              /\ sent' = IF o.exc = "" THEN WriteResponse(o.response) ELSE Nothing
              /\ escaped' = IF o.exc /= "" THEN o.exc
                            ELSE IF o.response.dumps THEN "" ELSE "TypeError"
              /\ notifs' = o.notifs
              /\ invoked' = o.invoked
              /\ stages' = Stages(PLUGIN_ACTIONS, r.clen, r.body, o)
              /\ nread' = rfile_read(r.clen)
    /\ prevError' = EndedInError
    /\ phase' = serve_forever(escaped')
    /\ UNCHANGED <<plugins_dir, idx, PLUGIN_ACTIONS, stdout, executed, loads>>
    /\ UNCHANGED <<nvars, svars, xvars>>

----------------------------------------------------------------------------
(* Specifications *)

Load ==
    /\ LoadPluginsEnter \/ LoadPluginsStep \/ LoadPluginsSummary
    /\ UNCHANGED <<nvars, svars, rvars, xvars>>

\* github_zip_update was not called
NoZip == [outcome |-> "", copied |-> {}, applied |-> {}]

\* no client has connected
HttpdIdle ==
    /\ conn = <<>>
    /\ backlog = <<>>
    /\ current = 0

\* the launcher has not been started
LauncherIdle ==
    /\ lpc = "idle"
    /\ steps = <<>>
    /\ env = [os_name |-> "", git_dir |-> FALSE, git |-> "", archive |-> {}]
    /\ files = EmptyDict
    /\ runs = 0
    /\ zip = NoZip

\* the server from import to serving; the normalizer run is idle
Init ==
    /\ name = <<>>
    /\ s2 = <<>>
    /\ s2again = <<>>
    /\ npc = "idle"
    /\ LoaderInit
    /\ plugins_dir.entries \in ServedListings \cup {<<>>}
    /\ ServerInit
    /\ HttpdIdle
    /\ LauncherIdle

\* load_plugins alone, on every bounded directory
LoadSpecInit ==
    /\ name = <<>>
    /\ s2 = <<>>
    /\ s2again = <<>>
    /\ npc = "idle"
    /\ LoaderInit
    /\ plugins_dir.entries \in Listings
    /\ MEDIA_CONTROL_AVAILABLE = FALSE
    /\ cfg = "missing"
    /\ port = DefaultPort
    /\ HttpdIdle
    /\ LauncherIdle
    /\ request = NoRequest
    /\ sent = Nothing
    /\ escaped = ""
    /\ notifs = <<>>
    /\ invoked = <<>>
    /\ prevError = FALSE
    /\ stages = <<>>
    /\ nread = 0
    /\ gpc = "idle"

LoadSpec == LoadSpecInit /\ [][Load]_vars

\* load_plugins called again in the process that imported webDeck
LoadTwiceNext ==
    \/ Load
    \/ LoadPluginsAgain /\ UNCHANGED <<nvars, svars, rvars, xvars>>

LoadTwiceSpec == LoadSpecInit /\ [][LoadTwiceNext]_vars

Next ==
    \/ Load
    \/ Run
    \/ do_OPTIONS
    \/ do_GET
    \/ do_POST_reload
    \/ do_POST

Spec == Init /\ [][Next]_vars

\* the ports run() is called with
Ports == {DefaultPort, 8002}

\* the server started by run(port=p) for each of the ports, with one plugin
PortSpecInit ==
    /\ name = <<>>
    /\ s2 = <<>>
    /\ s2again = <<>>
    /\ npc = "idle"
    /\ LoaderInit
    /\ plugins_dir = [exists |-> TRUE, entries |-> <<deck>>]
    /\ MEDIA_CONTROL_AVAILABLE = TRUE
    /\ port \in Ports
    /\ cfg \in CfgStates \ {"default"}
    /\ request = NoRequest
    /\ sent = Nothing
    /\ escaped = ""
    /\ notifs = <<>>
    /\ invoked = <<>>
    /\ prevError = FALSE
    /\ stages = <<>>
    /\ nread = 0
    /\ gpc = "idle"
    /\ HttpdIdle
    /\ LauncherIdle

PortSpec == PortSpecInit /\ [][Next]_vars

\* the normalizer alone, applied to every bounded identifier
NormSpecInit ==
    /\ NormInit
    /\ plugins_dir = [exists |-> FALSE, entries |-> <<>>]
    /\ idx = 1
    /\ PLUGIN_ACTIONS = EmptyDict
    /\ stdout = <<>>
    /\ executed = <<>>
    /\ loads = 0
    /\ phase = "import"
    /\ MEDIA_CONTROL_AVAILABLE = FALSE
    /\ cfg = "missing"
    /\ port = DefaultPort
    /\ HttpdIdle
    /\ LauncherIdle
    /\ request = NoRequest
    /\ sent = Nothing
    /\ escaped = ""
    /\ notifs = <<>>
    /\ invoked = <<>>
    /\ prevError = FALSE
    /\ stages = <<>>
    /\ nread = 0
    /\ gpc = "idle"

NormSpecNext ==
    /\ NormNext
    /\ UNCHANGED <<lvars, svars, rvars, xvars>>

NormSpec == NormSpecInit /\ [][NormSpecNext]_vars

----------------------------------------------------------------------------
(* run: HTTPServer.serve_forever with requests in flight *)

\* clients that connect
MaxConns == 2

Conns == 1..MaxConns

\* the steps a slow handler takes before it returns
MaxWork == 3

\* what the handler of a request does: it returns at once, it returns
\* after MaxWork steps, or it does not return (messagebox.showinfo of line
\* 294 until the box is dismissed, a plugin method that loops)
HandlerKinds == {"returns", "slow", "blocks"}

Connection(st, handler, work) == [st |-> st, handler |-> handler, work |-> work]

\* line 380: the listening socket is open and no client has connected
HttpdInit ==
    /\ conn = [c \in Conns |-> Connection("closed", "returns", 0)]
    /\ backlog = <<>>
    /\ current = 0

\* a client connects and sends a request; the connection waits in the
\* backlog of the listening socket
Connect(c) ==
    /\ conn[c].st = "closed"
    /\ \E k \in HandlerKinds :
          conn' = [conn EXCEPT ![c] =
                      Connection("queued", k, IF k = "slow" THEN MaxWork ELSE 0)]
    /\ backlog' = Append(backlog, c)
    /\ UNCHANGED current

\* lines 378-391: server_class is HTTPServer, whose serve_forever accepts
\* a connection and runs its handler in the thread of the loop itself; it
\* accepts the next one only after the handler has returned
get_request ==
    /\ current = 0
    /\ backlog /= <<>>
    /\ current' = Head(backlog)
    /\ backlog' = Tail(backlog)
    /\ conn' = [conn EXCEPT ![Head(backlog)].st = "handling"]

\* a step of the handler that is running
HandlerStep ==
    /\ current /= 0
    /\ conn[current].work > 0
    /\ conn' = [conn EXCEPT ![current].work = @ - 1]
    /\ UNCHANGED <<backlog, current>>

\* the handler returns and serve_forever goes back to its loop
finish_request ==
    /\ current /= 0
    /\ conn[current].handler /= "blocks"
    /\ conn[current].work = 0
    /\ conn' = [conn EXCEPT ![current].st = "done"]
    /\ current' = 0
    /\ UNCHANGED backlog

\* the client closes a connection that was answered
Close(c) ==
    /\ conn[c].st = "done"
    /\ conn' = [conn EXCEPT ![c] = Connection("closed", "returns", 0)]
    /\ UNCHANGED <<backlog, current>>

HttpdSpecInit ==
    /\ name = <<>>
    /\ s2 = <<>>
    /\ s2again = <<>>
    /\ npc = "idle"
    /\ plugins_dir = [exists |-> FALSE, entries |-> <<>>]
    /\ idx = 1
    /\ PLUGIN_ACTIONS = EmptyDict
    /\ stdout = <<>>
    /\ executed = <<>>
    /\ loads = 0
    /\ phase = "serving"
    /\ MEDIA_CONTROL_AVAILABLE = FALSE
    /\ cfg = "missing"
    /\ port = DefaultPort
    /\ request = NoRequest
    /\ sent = Nothing
    /\ escaped = ""
    /\ notifs = <<>>
    /\ invoked = <<>>
    /\ prevError = FALSE
    /\ stages = <<>>
    /\ nread = 0
    /\ gpc = "idle"
    /\ HttpdInit
    /\ LauncherIdle

HttpdNext ==
    /\ \/ \E c \in Conns : Connect(c)
       \/ get_request
       \/ HandlerStep
       \/ finish_request
       \/ \E c \in Conns : Close(c)
    /\ UNCHANGED <<nvars, lvars, svars, rvars, uvars, gvars>>

\* the thread of serve_forever is scheduled: it accepts when it can, and
\* a handler that can take a step or return does
HttpdSpec ==
    /\ HttpdSpecInit
    /\ [][HttpdNext]_vars
    /\ WF_vars(get_request /\ UNCHANGED <<nvars, lvars, svars, rvars, uvars, gvars>>)
    /\ WF_vars(HandlerStep /\ UNCHANGED <<nvars, lvars, svars, rvars, uvars, gvars>>)
    /\ WF_vars(finish_request /\ UNCHANGED <<nvars, lvars, svars, rvars, uvars, gvars>>)

----------------------------------------------------------------------------
(* launchServer.py *)

\* paths relative to REPO_ROOT are sequences of names
CONFIG_PATH == <<"webdeckCfg.json">>

WEBDECK_SCRIPT == <<"webDeck.py">>

sha_file == <<".webdeck_remote_sha">>

\* line 46
PRESERVE_NAMES == {CONFIG_PATH[1], "plugins"}

\* the name under which a file system that ignores case (os.name 'nt')
\* finds the entry called n
CaseFold(n) ==
    CASE n = "Plugins" -> "plugins"
      [] n = "WEBDECKCFG.JSON" -> "webdeckCfg.json"
      [] OTHER -> n

\* REPO_ROOT / rel: the file the path rel names on the file system of os
Dest(rel, os) ==
    IF os = "nt" THEN [i \in 1..Len(rel) |-> CaseFold(rel[i])] ELSE rel

\* the files of the archive of the remote HEAD (env.archive is the archive
\* the download returns), relative to its root directory
ArchiveEntries ==
    { <<"webDeck.py">>,
      <<"webdeckCfg.json">>,
      <<"WEBDECKCFG.JSON">>,
      <<"plugins", "toggleMute.py">>,
      <<"Plugins", "toggleMute.py">>,
      <<"src", "plugins", "toggleMute.py">>,
      <<".git", "config">> }

MaxEntries == 2

Archives == {a \in SUBSET ArchiveEntries : Cardinality(a) <= MaxEntries}

\* what git_check_and_update finds once .git exists
GitStates ==
    {"unavailable", "fetch_fails", "no_upstream", "up_to_date", "behind", "pull_fails"}

\* what github_zip_update does: the queries fail (lines 161-183), the
\* recorded SHA is the latest (line 194), the download or the extraction
\* fails (lines 201-228), a copy of the loop raises (lines 237-269 and
\* 284-290), the archive is applied
ZipOutcomes ==
    {"query_fails", "same_sha", "download_fails", "extract_fails", "copy_fails", "applied"}

\* the files an installation may have before the launcher runs
InstalledFiles ==
    (WEBDECK_SCRIPT :> "installed") @@ (CONFIG_PATH :> "user")
        @@ (<<"plugins", "toggleMute.py">> :> "user") @@ (sha_file :> "sha")

\* the SHA of the remote HEAD the queries of lines 161-178 return
latest_sha == "latest"

Installations == {[p \in S |-> InstalledFiles[p]] : S \in SUBSET DOMAIN InstalledFiles}

Write(fs, path, content) == [p \in DOMAIN fs \cup {path} |-> IF p = path THEN content ELSE fs[p]]

LauncherInit ==
    /\ lpc = "dependencies"
    /\ steps = <<>>
    /\ env \in [os_name : {"nt", "posix"}, git_dir : BOOLEAN, git : GitStates,
                archive : Archives]
    /\ files \in Installations
    /\ runs = 1
    /\ zip = NoZip

\* lines 49-80 and 358-360: main goes on whatever ensure_dependencies returns
ensure_dependencies ==
    /\ lpc = "dependencies"
    /\ steps' = Append(steps, "dependencies")
    /\ lpc' = "config"
    /\ UNCHANGED <<env, files, runs, zip>>

\* lines 83-112: writes the default file when there is none
create_default_config ==
    /\ lpc = "config"
    /\ steps' = Append(steps, "config")
    /\ \E writeOk \in BOOLEAN :
          files' = IF CONFIG_PATH \notin DOMAIN files /\ writeOk
                   THEN Write(files, CONFIG_PATH, "default")
                   ELSE files
    /\ lpc' = "update"
    /\ UNCHANGED <<env, runs, zip>>

\* lines 115-152: the value git_check_and_update returns
GitUpdated(e) == e.git_dir /\ e.git = "behind"

\* lines 115-152 and 364-366: git pull when the clone is behind its
\* upstream; main goes on to github_zip_update when this returns False
git_check_and_update ==
    /\ lpc = "update"
    /\ steps' = Append(steps, "update")
    /\ files' = IF GitUpdated(env) THEN Write(files, WEBDECK_SCRIPT, "pulled") ELSE files
    /\ lpc' = IF GitUpdated(env) THEN "startup" ELSE "zip"
    /\ UNCHANGED <<env, runs, zip>>

\* lines 238-251: the entries of the archive the loop copies
Applied(archive) ==
    {rel \in archive :
        /\ \A i \in 1..Len(rel) : rel[i] /= ".git"
        /\ rel[1] \notin PRESERVE_NAMES}

\* lines 185-192: the SHA the installation recorded, None without the file
local_sha(fs) == IF sha_file \in DOMAIN fs THEN fs[sha_file] ELSE "None"

\* a loop that records the SHA although one of its copies raised
WritesMarkerOnFailure(outcome) == outcome \in {"copy_fails", "applied"}

\* lines 271-275 and 284-290: sha_file.write_text is reached when the loop
\* ended without an exception
WritesMarker(outcome) == outcome = "applied"

\* lines 253-269: the files after the loop copied the entries done of the
\* archive; the copies into the backup directory of the files in lost
\* raised, which lines 262-265 ignore
CopyFiles(fs, done, lost, os) ==
    LET copied == {Dest(rel, os) : rel \in done}
        saved == {<<"backups">> \o d : d \in (copied \cap DOMAIN fs) \ lost}
    IN  [p \in DOMAIN fs \cup copied \cup saved |->
            IF p \in copied THEN "archive"
            ELSE IF p \in saved THEN fs[Tail(p)]
            ELSE fs[p]]

\* lines 230-275: the files after github_zip_update ended in outcome
ApplyZip(fs, outcome, done, lost, markerOk, os) ==
    LET after == IF outcome \in {"copy_fails", "applied"}
                 THEN CopyFiles(fs, done, lost, os)
                 ELSE fs
    IN  IF WritesMarker(outcome) /\ markerOk
        THEN Write(after, sha_file, latest_sha)
        ELSE after

\* lines 155-290 and 366-373
github_zip_update ==
    /\ lpc = "zip"
    /\ \E outcome \in ZipOutcomes :
          /\ outcome /= "query_fails" => (outcome = "same_sha" <=> local_sha(files) = latest_sha)
          /\ \E done \in SUBSET Applied(env.archive), markerOk \in BOOLEAN :
                /\ outcome = "applied" => done = Applied(env.archive)
                /\ outcome = "copy_fails" => done /= Applied(env.archive)
                /\ outcome \notin {"applied", "copy_fails"} => done = {}
                /\ WritesMarker(outcome) \/ markerOk
                /\ \E lost \in SUBSET ({Dest(rel, env.os_name) : rel \in done} \cap DOMAIN files) :
                      /\ files' = ApplyZip(files, outcome, done, lost, markerOk, env.os_name)
                      /\ zip' = [outcome |-> outcome,
                                 copied |-> {Dest(rel, env.os_name) : rel \in done},
                                 applied |-> {Dest(rel, env.os_name) : rel \in Applied(env.archive)}]
    /\ lpc' = "startup"
    /\ UNCHANGED <<steps, env, runs>>

\* lines 293-328: exit(0) off Windows; on Windows the batch file is written
\* to the Startup folder, outside REPO_ROOT
ensure_startup_entry ==
    /\ lpc = "startup"
    /\ steps' = Append(steps, "startup")
    /\ lpc' = IF env.os_name /= "nt" THEN "exited" ELSE "launch"
    /\ UNCHANGED <<env, files, runs, zip>>

\* lines 331-352 and 382-387: Popen of webDeck.py, then sys.exit(0); main
\* returns when the script is missing or Popen raises
launch_server_detached ==
    /\ lpc = "launch"
    /\ steps' = Append(steps, "launch")
    /\ \E popenOk \in BOOLEAN :
          lpc' = IF WEBDECK_SCRIPT \in DOMAIN files /\ popenOk THEN "launched" ELSE "returned"
    /\ UNCHANGED <<env, files, runs, zip>>

MaxRuns == 2

\* the launcher is started again (the Startup entry of lines 293-328 runs
\* it at every logon)
Restart ==
    /\ lpc \in {"exited", "returned", "launched"}
    /\ runs < MaxRuns
    /\ lpc' = "dependencies"
    /\ steps' = <<>>
    /\ runs' = runs + 1
    /\ UNCHANGED <<env, files, zip>>

LaunchSpecInit ==
    /\ name = <<>>
    /\ s2 = <<>>
    /\ s2again = <<>>
    /\ npc = "idle"
    /\ plugins_dir = [exists |-> FALSE, entries |-> <<>>]
    /\ idx = 1
    /\ PLUGIN_ACTIONS = EmptyDict
    /\ stdout = <<>>
    /\ executed = <<>>
    /\ loads = 0
    /\ phase = "import"
    /\ MEDIA_CONTROL_AVAILABLE = FALSE
    /\ cfg = "missing"
    /\ port = DefaultPort
    /\ request = NoRequest
    /\ sent = Nothing
    /\ escaped = ""
    /\ notifs = <<>>
    /\ invoked = <<>>
    /\ prevError = FALSE
    /\ stages = <<>>
    /\ nread = 0
    /\ gpc = "idle"
    /\ HttpdIdle
    /\ LauncherInit

\* lines 355-387: main
LaunchNext ==
    /\ \/ ensure_dependencies
       \/ create_default_config
       \/ git_check_and_update
       \/ github_zip_update
       \/ ensure_startup_entry
       \/ launch_server_detached
    /\ UNCHANGED <<nvars, lvars, svars, rvars, cvars, gvars>>

LaunchSpec == LaunchSpecInit /\ [][LaunchNext]_vars

----------------------------------------------------------------------------
(* Properties *)

IsActionPost == request.method = "POST" /\ request.path = "/"

\* the object the action endpoint decoded: the body, or {} without one
DecodedObject ==
    IF request.clen = "n" THEN request.body
    ELSE Body("object", JsonMissing, JsonMissing)

HasObject ==
    /\ IsActionPost
    /\ request.clen /= "bad"
    /\ DecodedObject.kind = "object"

AllAccepted == \A i \in 1..Len(notifs) : notifs[i].ok

RegisteredLines == {i \in 1..Len(stdout) : stdout[i].tag = "Registered"}

\* the first registration attempt for the action of line i
FirstAttempt(i) ==
    CHOOSE j \in RegisteredLines :
        /\ stdout[j].action = stdout[i].action
        /\ \A k \in RegisteredLines : stdout[k].action = stdout[i].action => j <= k

\* C1: first write wins. At every point of loading, every identifier some
\* operation was registered under has one entry in the registry, and it is
\* the method of the first registration attempt for that identifier in
\* enumeration order; no later attempt has replaced it.
C1_FirstWriteWins ==
    \A i \in RegisteredLines :
        LET f == stdout[FirstAttempt(i)]
        IN  /\ stdout[i].action \in DOMAIN PLUGIN_ACTIONS
            /\ PLUGIN_ACTIONS[stdout[i].action].file = f.file
            /\ PLUGIN_ACTIONS[stdout[i].action].attr = f.attr

\* loading has ended after two different modules attempted the same identifier
C1_Witness ==
    /\ phase = "loaded"
    /\ \E i, j \in RegisteredLines :
          /\ i < j
          /\ stdout[i].action = stdout[j].action
          /\ stdout[i].file /= stdout[j].file

\* C2: built-in precedence. A request whose action is a built-in identifier
\* calls the built-in branch of that identifier and no plugin method,
\* whatever the registry holds.
C2_BuiltinPrecedence ==
    (HasObject /\ DecodedObject.action.t = "str"
        /\ DecodedObject.action.s \in BuiltinActions)
    => /\ Len(invoked) = 1
       /\ invoked[1].kind = "builtin"
       /\ invoked[1].id = DecodedObject.action.s

\* a request for open_url was handled while a plugin method is registered
\* under open_url
C2_Witness ==
    /\ HasObject
    /\ DecodedObject.action = JsonStr(Str_open_url)
    /\ Str_open_url \in DOMAIN PLUGIN_ACTIONS
    /\ Len(invoked) = 1
    /\ invoked[1].kind = "builtin"

UnknownActionAnswer ==
    Sent(1, 400, TRUE, "result", Result("error", Msg("Unknown action.", <<>>, "")))

\* C3: unknown action. Every action POST whose body is a JSON object, with
\* an action value of any JSON type or none, that is neither a built-in
\* identifier nor a key of the registry, is answered by exactly
\* {status: error, message: "Unknown action."} with HTTP 400, and no
\* exception leaves the handler. (Stated for the requests whose
\* notifications the sink accepted.)
C3_UnknownAction ==
    (HasObject /\ AllAccepted
        /\ ~(DecodedObject.action.t = "str"
             /\ DecodedObject.action.s \in BuiltinActions \cup DOMAIN PLUGIN_ACTIONS))
    => (sent = UnknownActionAnswer /\ escaped = "")

InvalidJsonAnswer ==
    Sent(1, 400, TRUE, "result", Result("error", Msg("Invalid JSON.", <<>>, "")))

\* C4: malformed body. Every action POST whose body does not decode as JSON
\* is answered by exactly {status: error, message: "Invalid JSON."} with
\* HTTP 400. (Stated for the requests whose notifications the sink
\* accepted.)
C4_MalformedBody ==
    (IsActionPost /\ AllAccepted
        /\ request.clen = "n" /\ request.body.kind \in {"badutf", "notjson"})
    => sent = InvalidJsonAnswer

\* C5: an exception raised by a resolved handler, built-in or plugin, is
\* caught and answered by a response with status error; it does not leave
\* do_POST. (Stated for the requests whose notifications the sink accepted.)
C5_HandlerExceptionsCaught ==
    (IsActionPost /\ AllAccepted /\ \E i \in 1..Len(invoked) : invoked[i].raised)
    => /\ escaped = ""
       /\ sent.n = 1
       /\ sent.kind = "result"
       /\ sent.body.status = "error"

\* C6: for every request no exception leaves do_GET or do_POST and exactly
\* one response is written. (Stated for the requests whose notifications
\* the sink accepted.)
C6_NoEscapeOneResponse ==
    (request.method \in {"GET", "POST"} /\ AllAccepted)
    => (escaped = "" /\ sent.n = 1)

LoadErrorLogged ==
    \E i \in 1..Len(stdout) :
        stdout[i].tag \in {"Failed to load plugin", "Failed to instantiate"}

IsStatusRequest == request = Request("GET", "/status", "absent", NoBody)

\* C7: after a request that ended in an error the serving loop is still
\* running, and a following GET /status, also after load errors, is
\* answered 200.
C7_KeepsServing ==
    /\ (request /= NoRequest /\ EndedInError) => phase = "serving"
    /\ (IsStatusRequest /\ (prevError \/ LoadErrorLogged))
       => (phase = "serving" /\ escaped = "" /\ sent = Sent(1, 200, TRUE, "status", StatusBody(gethostname, port)))

\* GET /status was answered 200 right after a request that ended in an
\* error, on a server one of whose plugins failed to load
C7_Witness ==
    /\ IsStatusRequest
    /\ prevError
    /\ LoadErrorLogged
    /\ phase = "serving"
    /\ sent.code = 200

\* C8: the normalizer is idempotent on identifiers over letters, digits,
\* underscores and hyphens.
C8_Idempotent == npc = "twice" => s2again = s2

\* an identifier the normalizer changed has been normalized twice
C8_Witness ==
    /\ npc = "twice"
    /\ s2 /= name
    /\ \E i \in 1..Len(name) : name[i] \in Upper

Separators == {"_", "-"}

AdjacentSeparators(s) ==
    \E i \in 1..(Len(s) - 1) : s[i] \in Separators /\ s[i + 1] \in Separators

\* C9: for an identifier without adjacent separators the normalizer returns
\* a lowercase string in which no two separators are adjacent.
C9_SingleSeparator ==
    (npc /= "in" /\ ~AdjacentSeparators(name))
    => /\ \A i \in 1..Len(s2) : s2[i] \notin Upper
       /\ ~AdjacentSeparators(s2)

\* the result the dispatcher synthesizes for the action
Synthesized(action) == Result("success", Msg("Plugin '{action}' executed.", action, ""))

\* C10: result normalization. A value returned by a plugin method that
\* carries a status field is sent unchanged; for any other returned value
\* the synthesized success result naming the action is sent. (Stated for
\* the returned values json.dumps accepts.)
C10_ResultNormalization ==
    \A i \in 1..Len(invoked) :
        (invoked[i].kind = "plugin" /\ ~invoked[i].raised /\ invoked[i].returned.dumps)
        => /\ sent.n = 1
           /\ sent.kind = "result"
           /\ sent.body = IF invoked[i].returned.t = "dict" /\ invoked[i].returned.hasStatus
                          THEN invoked[i].returned
                          ELSE Synthesized(invoked[i].id)

\* C11: every body written in answer to an action POST has a status that
\* is success or error and a message.
C11_WellFormedResult ==
    (IsActionPost /\ sent.kind = "result")
    => /\ sent.body.hasStatus
       /\ sent.body.status \in {"success", "error"}
       /\ sent.body.hasMessage

\* C12: an answered action POST has code 200 exactly when the status of
\* its body is success and 400 exactly when it is error, and no other code.
C12_StatusCode ==
    (IsActionPost /\ sent.n = 1 /\ sent.kind = "result")
    => /\ sent.code \in {200, 400}
       /\ sent.code = 200 <=> sent.body.status = "success"
       /\ sent.code = 400 <=> sent.body.status = "error"

\* C13: every response written carries Access-Control-Allow-Origin: *.
C13_CorsOnEveryResponse == sent.n > 0 => sent.cors

\* C14: notification dispatch is fire-and-forget. An action request one of
\* whose notifications the sink rejected is answered as some run of the
\* same request with the same handler calls is whose notifications the
\* sink accepted.
C14_FireAndForget ==
    (IsActionPost /\ request.clen /= "bad" /\ ~AllAccepted)
    => \E os \in OsOutcomes, ret \in PluginInputs(PLUGIN_ACTIONS, request) :
          LET o == Dispatch(PLUGIN_ACTIONS, request.clen, request.body, os, ret, TRUE, TRUE)
          IN  /\ o.invoked = invoked
              /\ o.exc = ""
              /\ escaped = IF o.response.dumps THEN "" ELSE "TypeError"
              /\ sent = WriteResponse(o.response)

\* C15: an action request whose handler was executed and answered with a
\* success or error result has dispatched one notification, important
\* exactly when the status is error. (Stated for the requests whose
\* notifications the sink accepted.)
C15_NotificationAfterExecuted ==
    (IsActionPost /\ invoked /= <<>> /\ escaped = "" /\ AllAccepted
        /\ sent.kind = "result" /\ sent.body.status \in {"success", "error"})
    => /\ Len(notifs) = 1
       /\ notifs[1].important <=> sent.body.status = "error"

\* C16: once the server is serving, no request adds, removes or replaces
\* an entry of PLUGIN_ACTIONS.
C16_RegistryReadOnly ==
    [][phase = "serving" => PLUGIN_ACTIONS' = PLUGIN_ACTIONS]_vars

\* POST /reload was handled by a server whose registry has entries
C16_Witness ==
    /\ phase = "serving"
    /\ request = Request("POST", "/reload", "absent", NoBody)
    /\ DOMAIN PLUGIN_ACTIONS /= {}

\* C17: a registration attempt under an occupied identifier is rejected and
\* the losing method is not reported as registered: every "Registered"
\* line names the method the registry holds for its identifier.
C17_LoserNotReported ==
    \A i \in RegisteredLines :
        /\ stdout[i].action \in DOMAIN PLUGIN_ACTIONS
        /\ PLUGIN_ACTIONS[stdout[i].action].file = stdout[i].file
        /\ PLUGIN_ACTIONS[stdout[i].action].attr = stdout[i].attr

\* load_plugins on a whole listing, from the state st
RECURSIVE LoadAll(_, _)
LoadAll(st, entries) ==
    IF entries = <<>> THEN st
    ELSE LoadAll(LoadEntry(st, Head(entries)), Tail(entries))

\* the listing without the entries that satisfy Drop
Without(entries, Drop(_)) == SelectSeq(entries, LAMBDA p : ~Drop(p))

\* whether some registry entry is a method of the module p
Contributes(p) == \E k \in DOMAIN PLUGIN_ACTIONS : PLUGIN_ACTIONS[k].file = p.stem

\* C18: load-failure isolation. After loading, no registry entry comes from
\* a module that failed to load or to instantiate, and the registry is the
\* one loading the directory without those modules gives.
C18_LoadFailureIsolated ==
    phase = "loaded"
    => /\ \A i \in 1..Len(plugins_dir.entries) :
             FailsToLoad(plugins_dir.entries[i]) => ~Contributes(plugins_dir.entries[i])
       /\ PLUGIN_ACTIONS
             = LoadAll(<<EmptyDict, <<>>, 1>>, Without(plugins_dir.entries, FailsToLoad))[1]

\* loading has ended on a directory where a module that failed precedes a
\* module whose methods are registered
C18_Witness ==
    /\ phase = "loaded"
    /\ \E i, j \in 1..Len(plugins_dir.entries) :
          /\ i < j
          /\ FailsToLoad(plugins_dir.entries[i])
          /\ Contributes(plugins_dir.entries[j])

\* a module that loads and does not define WebDeckPlugin
Classless(p) ==
    /\ p.suffix = ".py"
    /\ ~startswith_underscore(p.stem)
    /\ p.load = "ok"
    /\ ~p.hasClass

Loaded(p) ==
    /\ p.suffix = ".py"
    /\ ~startswith_underscore(p.stem)
    /\ p.load = "ok"

\* C20: after load_plugins, for every loaded module that defines main() the
\* normalized file name is registered and mapped to that main, and every
\* public function of a loaded module is registered under its normalized
\* name.
C20_DocstringRules ==
    phase = "loaded"
    => \A i \in 1..Len(plugins_dir.entries) :
          LET p == plugins_dir.entries[i]
          IN  Loaded(p)
              => /\ Str_main \in p.functions
                    => /\ _camel_to_snake(p.stem) \in DOMAIN PLUGIN_ACTIONS
                       /\ PLUGIN_ACTIONS[_camel_to_snake(p.stem)].file = p.stem
                       /\ PLUGIN_ACTIONS[_camel_to_snake(p.stem)].attr = Str_main
                 /\ \A f \in p.functions :
                       ~startswith_underscore(f)
                       => _camel_to_snake(f) \in DOMAIN PLUGIN_ACTIONS

IsGet(path) == request.method = "GET" /\ request.path = path

\* C22: GET /discover answers 200 with status online, a non-empty hostname
\* and the port run() was called with.
C22_DiscoverPort ==
    IsGet("/discover")
    => /\ sent.code = 200
       /\ sent.body.status = "online"
       /\ sent.body.hostname /= ""
       /\ sent.body.port = port

\* C23: every GET /discover calls send_notification once, with
\* important=False, and no GET /status calls it.
C23_DiscoverNotifiesStatusSilent ==
    /\ IsGet("/discover") => Len(notifs) = 1 /\ ~notifs[1].important
    /\ IsGet("/status") => notifs = <<>>

\* GET /discover was handled after a request that ended in an error
C23_Witness ==
    /\ IsGet("/discover")
    /\ prevError
    /\ Len(notifs) = 1

\* C24: GET /buttons is answered with 200 and the array of buttons in
\* every state of the configuration file.
C24_ButtonsAlways200 ==
    IsGet("/buttons")
    => /\ sent.n = 1
       /\ sent.code = 200
       /\ sent.kind = "buttons"

\* C25: every POST /reload is answered, with 200 exactly when
\* webdeckCfg.json could be read (it is JSON with a buttons key) and
\* otherwise with 500 and a body {status: error, message}, and calls no
\* action handler.
C25_ReloadStatus ==
    [][(request'.method = "POST" /\ request'.path = "/reload")
        => /\ sent'.n = 1
           /\ invoked' = <<>>
           /\ sent'.code \in {200, 500}
           /\ sent'.code = 200 <=> cfg \in {"valid", "default"}
           /\ sent'.code = 500
                => /\ sent'.kind = "result"
                   /\ sent'.body.status = "error"
                   /\ sent'.body.hasMessage]_vars

\* POST /reload was answered with 500
C25_Witness ==
    /\ request.method = "POST"
    /\ request.path = "/reload"
    /\ sent.code = 500

\* the request is an action POST for a media action
IsMediaRequest ==
    /\ IsActionPost
    /\ request.clen = "n"
    /\ request.body.kind = "object"
    /\ \E a \in MediaActions : EqStr(request.body.action, a)

\* C26: when media control is unavailable a media action is answered with
\* 400 and {status: error, message: Media control not available.} and no
\* key event is sent.
C26_MediaUnavailable ==
    (IsMediaRequest /\ ~MEDIA_CONTROL_AVAILABLE)
    => /\ sent = Sent(1, 400, TRUE, "result",
                      Result("error", Msg("Media control not available.", <<>>, "")))
       /\ \A i \in 1..Len(invoked) : invoked[i].keys = <<>>

\* the position of a stage in Received, Parsed, Resolved, Executed, Responded
Rank(stage) ==
    CASE stage = "Received" -> 1
      [] stage = "Parsed" -> 2
      [] stage = "Resolved" -> 3
      [] stage = "Executed" -> 4
      [] stage = "Responded" -> 5

\* the request is an action POST whose body cannot be decoded
IsDecodeFailure ==
    /\ IsActionPost
    /\ request.clen = "n"
    /\ request.body.kind \in {"badutf", "notjson"}

\* the request is an action POST whose action is in neither table
IsUnknownAction ==
    /\ HasObject
    /\ Resolve(PLUGIN_ACTIONS, DecodedObject.action).kind = "unknown"

\* C30: an action request goes through its stages in the order Received,
\* Parsed, Resolved, Executed, Responded; a decode failure goes from
\* Received, an unknown identifier from Resolved, directly to Responded
\* with no handler called; at most one handler is called, once. (Stated
\* for the requests whose notifications the sink accepted.)
C30_RequestOrdering ==
    (IsActionPost /\ AllAccepted)
    => /\ \A i, j \in 1..Len(stages) : i < j => Rank(stages[i]) < Rank(stages[j])
       /\ IsDecodeFailure => stages = <<"Received", "Responded">> /\ invoked = <<>>
       /\ IsUnknownAction
             => /\ stages = <<"Received", "Parsed", "Resolved", "Responded">>
                /\ invoked = <<>>
       /\ Len(invoked) <= 1

\* C21: a handler that is slow or never returns stalls only its own
\* request: every other request that has arrived is served to completion.
C21_OtherRequestsServed ==
    \A c \in Conns :
        (conn[c].st = "queued" /\ conn[c].handler /= "blocks") ~> (conn[c].st = "done")

\* the launcher's main has ended
Ended == lpc \in {"exited", "returned", "launched"}

\* C27: the launcher updates the installation only from a git clone with
\* git available: when .git or git is missing, or the clone is up to date,
\* the update step of main changes no file.
C27_UpdateOnlyFromGit ==
    [][(lpc \in {"update", "zip"}
          /\ (~env.git_dir \/ env.git = "unavailable" \/ env.git = "up_to_date"))
        => files' = files]_vars

\* webdeckCfg.json, or a path under the top-level plugins directory
Preserved(p) == p[1] \in PRESERVE_NAMES

\* C28: a ZIP update creates, overwrites and deletes nothing that is
\* webdeckCfg.json or lies under the top-level plugins directory.
C28_ZipPreserves ==
    [][lpc = "zip"
        => \A p \in DOMAIN files \cup DOMAIN files' :
              Preserved(p)
              => /\ p \in DOMAIN files
                 /\ p \in DOMAIN files'
                 /\ files'[p] = files[p]]_vars

\* C29: main performs dependencies, default config, update, startup entry,
\* launch in this order and every run reaches the launch step.
C29_ReachesLaunch ==
    /\ \E n \in 0..5 :
          steps = SubSeq(<<"dependencies", "config", "update", "startup", "launch">>, 1, n)
    /\ Ended => steps[Len(steps)] = "launch"

\* the calls of plugin handlers the request made
PluginCalls == {i \in 1..Len(invoked) : invoked[i].kind = "plugin"}

\* C31: a plugin handler that declares no parameter is called with no
\* argument, every other handler with the decoded payload as its single
\* argument; the handler called is the one registered for the action, and
\* the shape of the call follows from its signature alone.
C31_CallShape ==
    \A i \in PluginCalls :
        /\ invoked[i].id \in DOMAIN PLUGIN_ACTIONS
        /\ LET h == PLUGIN_ACTIONS[invoked[i].id]
           IN  /\ invoked[i].file = h.file
               /\ invoked[i].attr = h.attr
               /\ invoked[i].nargs = (IF h.params = 0 THEN 0 ELSE 1)

\* a handler without parameters was called without argument and returned
C31_Witness ==
    \E i \in PluginCalls :
        /\ PLUGIN_ACTIONS[invoked[i].id].params = 0
        /\ invoked[i].nargs = 0
        /\ ~invoked[i].raised

\* the entries of the plugins directory
DirEntries == {plugins_dir.entries[j] : j \in 1..Len(plugins_dir.entries)}

\* the file p is a Python file whose name does not begin with '_'
IsCandidate(p) == p.suffix = ".py" /\ p.stem[1] /= "_"

\* C32: discovery executes only the .py files directly in the plugins
\* directory whose name does not begin with '_': every executed module is
\* such an entry of the directory, no file inside a subdirectory is
\* executed, and without a plugins directory nothing is executed and the
\* registry stays as it was.
C32_OnlyCandidatesExecuted ==
    /\ \A i \in 1..Len(executed) :
          \E p \in DirEntries : p.stem = executed[i] /\ IsCandidate(p)
    /\ \A p \in DirEntries : \A i \in 1..Len(executed) : executed[i] \notin Inside(p)
    /\ (~plugins_dir.exists /\ phase = "loaded")
          => (PLUGIN_ACTIONS = EmptyDict /\ executed = <<>>)

\* a directory with a private file or a subdirectory next to a plugin was
\* loaded, and the plugin was executed
C32_Witness ==
    /\ phase = "loaded"
    /\ \E p \in DirEntries : ~IsCandidate(p) /\ (p.stem[1] = "_" \/ Inside(p) /= {})
    /\ Len(executed) = 1

\* the units whose WebDeckPlugin was instantiated
Instantiated == {p \in DirEntries : IsCandidate(p) /\ p.load = "ok" /\ p.hasClass /\ p.init = "ok"}

\* the methods of the instance of p that are neither private nor metadata
PublicMethods(p) == {m \in p.methods : m.attr[1] /= "_" /\ m.attr /= Str_metadata}

----------------------------------------------------------------------------
(* webDeck_GUI.py: the configuration editor, a process of its own *)

\* lines 179-189: load_config at the start of the editor, which exits when
\* the file is missing or is not JSON
load_config ==
    /\ gpc = "idle"
    /\ cfg \in {"valid", "default"}
    /\ gpc' = "editing"
    /\ UNCHANGED cfg

\* line 199: open(config_path, 'w') truncates the file
save_config_open ==
    /\ gpc = "editing"
    /\ gpc' = "writing"
    /\ cfg' = "partial"

\* lines 200-201: json.dump has written the configuration and the file is
\* closed
save_config_dump ==
    /\ gpc = "writing"
    /\ gpc' = "editing"
    /\ cfg' = "valid"

Gui ==
    /\ \/ load_config
       \/ save_config_open
       \/ save_config_dump
    /\ UNCHANGED <<nvars, lvars, MEDIA_CONTROL_AVAILABLE, port, rvars, cvars, uvars>>

\* the server without plugins directory, asked for its configuration
\* while the editor runs
GuiSpecInit ==
    /\ Init
    /\ ~plugins_dir.exists
    /\ MEDIA_CONTROL_AVAILABLE

GuiNext ==
    \/ Load
    \/ Run
    \/ do_GET
    \/ do_POST_reload
    \/ Gui

GuiSpec == GuiSpecInit /\ [][GuiNext]_vars

\* an installation that is not a git clone, whose launcher runs again at
\* every logon: every run reaches github_zip_update
RelaunchSpecInit ==
    /\ LaunchSpecInit
    /\ ~env.git_dir
    /\ env.git = "unavailable"

RelaunchNext ==
    \/ LaunchNext
    \/ Restart /\ UNCHANGED <<nvars, lvars, svars, rvars, cvars, gvars>>

RelaunchSpec == RelaunchSpecInit /\ [][RelaunchNext]_vars

\* the copy of the installation file p in the backup directory
BackupOf(p) == <<"backups">> \o p

\* C34: during a ZIP update every installation file that is overwritten
\* has first been copied, with the content it had, into the backup
\* directory: after the update the backup of every overwritten file exists
\* and holds the prior content.
C34_BackupBeforeOverwrite ==
    [][lpc = "zip"
        => \A p \in zip'.copied \cap DOMAIN files :
              /\ BackupOf(p) \in DOMAIN files'
              /\ files'[BackupOf(p)] = files[p]]_vars

IsBodylessPost == IsActionPost /\ request.clen \in {"absent", "0"}

\* C36: an action POST without body (Content-Length absent or 0) is
\* handled as the empty object: it is answered with 400 and the Unknown
\* action error, no handler is invoked and nothing is read from the
\* connection.
C36_BodylessPost ==
    IsBodylessPost
    => /\ sent = Sent(1, 400, TRUE, "result", Result("error", Msg("Unknown action.", <<>>, "")))
       /\ invoked = <<>>
       /\ nread = 0

\* the step is a request of the server that reads webdeckCfg.json
ConfigRead ==
    /\ phase = "serving"
    /\ gpc' = gpc
    /\ \/ request'.method = "GET" /\ request'.path = "/buttons"
       \/ request'.method = "POST" /\ request'.path = "/reload"

\* C35: a GET /buttons or POST /reload served while the editor saves reads
\* the complete old or the complete new configuration, never a truncated
\* or partly written file.
C35_NoPartialRead == [][ConfigRead => cfg /= "partial"]_vars

\* the request of the step got the buttons of the file in state c
ReadSucceeded(c) ==
    IF request'.method = "GET"
    THEN sent' = Sent(1, 200, TRUE, "buttons", ButtonsBody(c)) /\ escaped' = ""
    ELSE sent'.n = 1 /\ sent'.code = 200

ReadFailed ==
    IF request'.method = "GET"
    THEN sent' = Nothing /\ escaped' = "FileNotFoundError"
    ELSE sent'.n = 1 /\ sent'.code = 500

\* C37: a read of the configuration (GET /buttons, POST /reload) that finds
\* no file fails and leaves either no file (the write failed) or the
\* default file; a read of the default file succeeds, returns the default
\* buttons and leaves it in place, so every later read succeeds; a read
\* changes no file that exists.
C37_DefaultWrittenOnce ==
    [][ConfigRead
        => /\ cfg = "missing" => (ReadFailed /\ cfg' \in {"missing", "default"})
           /\ cfg = "default" => (ReadSucceeded("default") /\ cfg' = "default")
           /\ cfg /= "missing" => cfg' = cfg]_vars

\* GET /buttons was answered with the default buttons; no server starts
\* with the default file, so an earlier read wrote it
C37_Witness ==
    /\ request.method = "GET"
    /\ request.path = "/buttons"
    /\ cfg = "default"
    /\ sent = Sent(1, 200, TRUE, "buttons", ButtonsBody("default"))

\* C39: load_plugins run again on the same directory leaves the registry
\* as the first run left it: no step of a later run adds or removes an
\* identifier or binds one to another handler or to the instance the
\* later run created.
C39_LoadAgainIdempotent == [][loads' >= 2 => PLUGIN_ACTIONS' = PLUGIN_ACTIONS]_vars

\* the second run executed the module of a registered plugin again and
\* the registry holds the handlers of the instances of the first run
C39_Witness ==
    /\ phase = "loaded"
    /\ loads = 2
    /\ DOMAIN PLUGIN_ACTIONS /= {}
    /\ \A k \in DOMAIN PLUGIN_ACTIONS :
          /\ PLUGIN_ACTIONS[k].instance = 1
          /\ \E i, j \in 1..Len(executed) :
                i < j /\ executed[i] = PLUGIN_ACTIONS[k].file /\ executed[j] = executed[i]

====
